---- MODULE Spec2Model ----
(***************************************************************************)
(* A model of feiskyer/kube-agent:                                         *)
(*   - KubeCopilotAgent.termination_msg        (src/kube_agent/agent.py)   *)
(*   - KubeCopilotAgent.run / plan: a Swarm team of AssistantAgents that   *)
(*     stops on TextMentionTermination("TERMINATE")                        *)
(*   - CommandExecutor.exec / run              (src/kube_agent/shell.py)   *)
(*   - the manifest extraction of `generate`   (src/kube_agent/cli.py)     *)
(* Text is a sequence of one-character strings.                            *)
(***************************************************************************)
EXTENDS Integers, Sequences, FiniteSets, TLC

VARIABLES
    \* termination_msg under test
    t_pc, t_x, t_out,
    \* one team.run() of run() / plan()
    mode, o_pc, current_speaker, thread, pending, round_count, ret,
    \* one CommandExecutor.run() call
    x_pc, x_cfg, x_proc, raw, result,
    \* the apply step of `generate`
    g_pc, g_doc, g_result, manifests

vars == <<t_pc, t_x, t_out, mode, o_pc, current_speaker, thread, pending, round_count, ret,
          x_pc, x_cfg, x_proc, raw, result, g_pc, g_doc, g_result, manifests>>

termVars == <<t_pc, t_x, t_out>>
orchVars == <<mode, o_pc, current_speaker, thread, pending, round_count, ret>>
execVars == <<x_pc, x_cfg, x_proc, raw, result>>
genVars  == <<g_pc, g_doc, g_result, manifests>>

----------------------------------------------------------------------------
(* Text helpers: Python's str operations on sequences of characters.       *)

\* Longest tail of input text that the model enumerates after a core word.
MaxTail == 3

RECURSIVE BoundedSeq(_, _)
\* All sequences over S of length at most n.
BoundedSeq(S, n) ==
    IF n = 0 THEN {<<>>}
    ELSE LET shorter == BoundedSeq(S, n - 1)
         IN  shorter \cup {Append(s, c) : s \in {t \in shorter : Len(t) = n - 1}, c \in S}

\* str.isspace() for the characters of the model.
Whitespace == {" ", "\n"}

\* str.upper(), one character.
UpperChar(c) ==
    CASE c = "t" -> "T" [] c = "e" -> "E" [] c = "r" -> "R" [] c = "m" -> "M"
      [] c = "i" -> "I" [] c = "n" -> "N" [] c = "a" -> "A" [] c = "d" -> "D"
      [] c = "x" -> "X" [] c = "o" -> "O" [] c = "k" -> "K"
      [] OTHER -> c

\* str.upper()
Upper(s) == [i \in 1..Len(s) |-> UpperChar(s[i])]

RECURSIVE rstripChars(_, _)
\* str.rstrip(chars): drop every trailing character that is in chars.
rstripChars(s, chars) ==
    IF s # <<>> /\ s[Len(s)] \in chars
    THEN rstripChars(SubSeq(s, 1, Len(s) - 1), chars)
    ELSE s

RECURSIVE lstripChars(_, _)
\* str.lstrip(chars)
lstripChars(s, chars) ==
    IF s # <<>> /\ s[1] \in chars THEN lstripChars(Tail(s), chars) ELSE s

\* str.strip(): whitespace off both ends.
strip(s) == lstripChars(rstripChars(s, Whitespace), Whitespace)

\* s[-n:]
LastN(s, n) == IF Len(s) <= n THEN s ELSE SubSeq(s, Len(s) - n + 1, Len(s))

\* `t in s` for strings.
Contains(s, t) == \E i \in 1..(Len(s) - Len(t) + 1) : SubSeq(s, i, i + Len(t) - 1) = t

\* The termination token, "TERMINATE".
TERMINATE == <<"T", "E", "R", "M", "I", "N", "A", "T", "E">>

----------------------------------------------------------------------------
(* KubeCopilotAgent.termination_msg.  x is [kind, content]: kind "dict" for *)
(* a dict, "other" for anything else; a missing, None or "" content is <<>>.*)

\* A faulty variant: one rstrip over both characters.
termination_msg_anymix(x) ==
    IF x.kind # "dict" THEN FALSE
    ELSE IF x.content = <<>> THEN FALSE
    ELSE LET content == strip(rstripChars(strip(x.content), {".", "*"}))
         IN  TERMINATE = Upper(LastN(content, 9))

termination_msg(x) ==
    IF x.kind # "dict" THEN FALSE
    ELSE IF x.content = <<>> THEN FALSE
    ELSE LET content1 == strip(x.content)
             content2 == strip(rstripChars(rstripChars(content1, {"."}), {"*"}))
         IN  TERMINATE = Upper(LastN(content2, 9))

\* The words the enumerated inputs are built around.
CoreWords ==
    { TERMINATE,
      <<"t", "e", "r", "m", "i", "n", "a", "t", "e">>,
      <<"T", "e", "r", "m", "i", "n", "a", "t", "e">>,
      <<"T", "E", "R", "M", "I", "N", "A", "T", "E", "D">>,
      <<"T", "E", "R", "M", "I", "N", "A", "T">> }

Prefixes == { <<>>, <<"x", " ">>, <<" ">> }

TailChars == {".", "*", " ", "x"}

TermInputs ==
    { [kind |-> "dict", content |-> p \o w \o t] :
        p \in Prefixes, w \in CoreWords, t \in BoundedSeq(TailChars, MaxTail) }
    \cup { [kind |-> "dict", content |-> t] : t \in BoundedSeq(TailChars, 1) }
    \cup { [kind |-> "other", content |-> TERMINATE] }

TermIdle == t_pc = "off" /\ t_x = [kind |-> "other", content |-> <<>>] /\ t_out = FALSE

InitTerm == t_pc = "call" /\ t_x \in TermInputs /\ t_out = FALSE

\* The call termination_msg(t_x).
TermCall ==
    /\ t_pc = "call"
    /\ t_out' = termination_msg(t_x)
    /\ t_pc' = "done"
    /\ UNCHANGED <<t_x, orchVars, execVars, genVars>>

----------------------------------------------------------------------------
(* The tokenizer, tiktoken's gpt-4 encoding, reduced to a three-letter      *)
(* alphabet: "a" followed by "b" merges into one token, "u" is a character  *)
(* outside ASCII that encodes to two tokens, anything else is one token.    *)

RECURSIVE TokenCount(_)
\* len(self.encoding.encode(s))
TokenCount(s) ==
    IF s = <<>> THEN 0
    ELSE IF Len(s) >= 2 /\ s[1] = "a" /\ s[2] = "b" THEN 1 + TokenCount(SubSeq(s, 3, Len(s)))
    ELSE IF s[1] = "u" THEN 2 + TokenCount(Tail(s))
    ELSE 1 + TokenCount(Tail(s))

----------------------------------------------------------------------------
(* run() and plan(): a Swarm of AssistantAgents (autogen_agentchat), as the *)
(* two methods set it up.  The team starts with its                        *)
(* first participant; each round the current speaker's model client answers *)
(* with text, with a hand-off to one of the agent's declared handoffs, or   *)
(* (an agent with tools) with a call of a tool.  The manager appends the    *)
(* response to the message thread, asks the termination condition, and      *)
(* selects the next speaker: the target of a HandoffMessage, else the same. *)

\* The message thread keeps its last MaxThread messages.
MaxThread == 3
\* Rounds are counted up to RoundCeiling + 1; the counter then stays.
RoundCeiling == 4
\* Longest output of a script the model enumerates.
MaxToolOut == 2
\* The token ceiling of the executors (max_tokens), at the model's scale.
TokenCeiling == 2

Roles == {"Admin", "Planner", "Critic", "Engineer"}

\* A faulty variant: a table that lets Engineer hand off to Planner.
handoffs_loose(agent) ==
    CASE agent = "Planner"  -> {"Critic", "Admin"}
      [] agent = "Critic"   -> {"Admin", "Planner"}
      [] agent = "Admin"    -> {"Planner", "Engineer"}
      [] agent = "Engineer" -> {"Admin", "Planner"}

\* handoffs= of get_planner_agent, get_critic_agent, get_admin_agent, get_engineer_agent
handoffs(agent) ==
    CASE agent = "Planner"  -> {"Critic", "Admin"}
      [] agent = "Critic"   -> {"Admin", "Planner"}
      [] agent = "Admin"    -> {"Planner", "Engineer"}
      [] agent = "Engineer" -> {"Admin"}

\* A faulty variant: every agent is given the tool.
tools_all(agent) == {"local_executor"}

\* tools= of the agents: only get_engineer_agent passes any.
tools(agent) == IF agent = "Engineer" THEN {"local_executor"} ELSE {}

\* The participants of the Swarm, in order.
participants(m) ==
    IF m = "plan" THEN <<"Admin", "Planner", "Critic">>
    ELSE <<"Admin", "Planner", "Critic", "Engineer">>

Range(s) == {s[i] : i \in 1..Len(s)}

TextMessage(src, c) ==
    [type |-> "TextMessage", source |-> src, content |-> c, target |-> "None"]
HandoffMessage(src, t) ==
    [type |-> "HandoffMessage", source |-> src, content |-> <<>>, target |-> t]
ToolCallMessage(src, script) ==
    [type |-> "ToolCallMessage", source |-> src, content |-> script, target |-> "None"]
ToolCallResultMessage(src, out) ==
    [type |-> "ToolCallResultMessage", source |-> src, content |-> out, target |-> "None"]

\* Texts a model client may answer with.
Replies ==
    { <<"o", "k">>,
      <<"o", "k", " ">> \o TERMINATE,
      <<"t", "e", "r", "m", "i", "n", "a", "t", "e", ".">>,
      <<"T", "e", "r", "m", "i", "n", "a", "t", "e", "*", "*">>,
      TERMINATE \o <<"D">>,
      TERMINATE \o <<" ", "x">> }

\* Scripts an engineer may ask local_executor to run.
Scripts == { <<"s">> }

\* What a script may print.
ToolOutputs == BoundedSeq({"a", "u"}, MaxToolOut)

\* Append to the thread, keeping its last MaxThread messages.
Post(th, m) == IF Len(th) < MaxThread THEN Append(th, m) ELSE Append(Tail(th), m)

\* TextMentionTermination("TERMINATE") on one message of the delta.
TextMentionTermination(m) == m.type = "TextMessage" /\ Contains(m.content, TERMINATE)

\* local_executor: the content of the CodeExecutorAgent's last message, as it is.
local_executor(out) == out

\* What the method returns once the team stops.
TaskReturn(m, th) ==
    IF m = "run"
    THEN [kind |-> "content", value |-> th[Len(th)].content]
    ELSE [kind |-> "TaskResult", value |-> th]

NoReturn == [kind |-> "none", value |-> <<>>]

\* The round counter, which stops counting past RoundCeiling + 1.
Bump(n) == IF n <= RoundCeiling THEN n + 1 ELSE n

OrchIdle ==
    /\ mode = "none" /\ o_pc = "off" /\ current_speaker = "None"
    /\ thread = <<>> /\ pending = <<>> /\ round_count = 0 /\ ret = NoReturn

\* team.run(instructions): the task is the first message, the first
\* participant the first speaker.
InitOrch ==
    /\ mode \in {"run", "plan"}
    /\ o_pc = "turn"
    /\ current_speaker = participants(mode)[1]
    /\ thread = <<TextMessage("user", <<"q">>)>>
    /\ pending = <<>>
    /\ round_count = 0
    /\ ret = NoReturn

\* The current speaker answers with text.
ModelText ==
    /\ o_pc = "turn"
    /\ \E c \in Replies :
        LET m == TextMessage(current_speaker, c)
            th == Post(thread, m)
        IN  /\ thread' = th
            /\ IF TextMentionTermination(m)
               THEN o_pc' = "returned" /\ ret' = TaskReturn(mode, th)
               ELSE o_pc' = "turn" /\ ret' = ret
    /\ round_count' = Bump(round_count)
    /\ UNCHANGED <<mode, current_speaker, pending, termVars, execVars, genVars>>

\* The current speaker hands off to one of its declared handoffs.
ModelHandoff ==
    /\ o_pc = "turn"
    /\ \E t \in handoffs(current_speaker) :
        /\ thread' = Post(thread, HandoffMessage(current_speaker, t))
        /\ current_speaker' = t
        /\ o_pc' = IF t \in Range(participants(mode)) THEN "turn" ELSE "raised"
    /\ round_count' = Bump(round_count)
    /\ UNCHANGED <<mode, pending, ret, termVars, execVars, genVars>>

\* The current speaker, an agent with tools, asks for a script to be run.
ModelToolCall ==
    /\ o_pc = "turn"
    /\ tools(current_speaker) # {}
    /\ \E s \in Scripts :
        /\ thread' = Post(thread, ToolCallMessage(current_speaker, s))
        /\ pending' = s
    /\ round_count' = Bump(round_count)
    /\ o_pc' = "tool"
    /\ UNCHANGED <<mode, current_speaker, ret, termVars, execVars, genVars>>

\* The tool runs; its result goes back to the same agent.
ExecuteTool ==
    /\ o_pc = "tool"
    /\ \E out \in ToolOutputs :
        thread' = Post(thread, ToolCallResultMessage(current_speaker, local_executor(out)))
    /\ pending' = <<>>
    /\ o_pc' = "turn"
    /\ UNCHANGED <<mode, current_speaker, round_count, ret, termVars, execVars, genVars>>

\* The model client raises: the exception leaves team.run.
ModelRaise ==
    /\ o_pc = "turn"
    /\ o_pc' = "raised"
    /\ UNCHANGED <<mode, current_speaker, thread, pending, round_count, ret, termVars, execVars, genVars>>

NextOrch == ModelText \/ ModelHandoff \/ ModelToolCall \/ ExecuteTool \/ ModelRaise

----------------------------------------------------------------------------
(* CommandExecutor.run and CommandExecutor.exec.                           *)

\* Longest process output the model enumerates.
MaxOut == 2
\* Largest max_tokens the model enumerates.
MaxCeiling == 2

OutChars == {"a", "b", "u", "\n"}

ProcOutputs == BoundedSeq(OutChars, MaxOut)

\* What subprocess.run(..., check=True, timeout=timeout) may do.  A
\* CalledProcessError carries the captured stdout; a TimeoutExpired carries
\* what was captured before the timeout, or None when nothing was.
ProcOutcomes(timeout) ==
    { [kind |-> k, has_stdout |-> TRUE, stdout |-> o] :
        k \in {"ok", "CalledProcessError"}, o \in ProcOutputs }
    \cup (IF timeout = "None" THEN {}
          ELSE { [kind |-> "TimeoutExpired", has_stdout |-> TRUE, stdout |-> o] :
                    o \in ProcOutputs \ {<<>>} }
               \cup { [kind |-> "TimeoutExpired", has_stdout |-> FALSE, stdout |-> <<>>] })

\* str(error), in the alphabet of the model.
ErrorText(p) == IF p.kind = "TimeoutExpired" THEN <<"b", "u", "a">> ELSE <<"b", "a", "b">>

Returned(v) == [raised |-> FALSE, value |-> v]
Raised == [raised |-> TRUE, value |-> <<>>]

\* CommandExecutor.exec on process outcome p: the text it returns, or that it
\* raises (None has no decode()).
exec(p, cfg) ==
    IF p.kind = "ok"
    THEN Returned(IF cfg.strip_newlines THEN strip(p.stdout) ELSE p.stdout)
    ELSE IF cfg.return_err_output
         THEN (IF p.has_stdout THEN Returned(p.stdout) ELSE Raised)
         ELSE Returned(ErrorText(p))

\* A faulty variant: halving that rounds up.
Halve_up(s) == SubSeq(s, 1, (Len(s) + 1) \div 2)

\* result[:len(result) // 2]
Halve(s) == SubSeq(s, 1, Len(s) \div 2)

NoProc == [kind |-> "none", has_stdout |-> FALSE, stdout |-> <<>>]

Configs ==
    [return_err_output : BOOLEAN, strip_newlines : BOOLEAN,
     max_tokens : 0..MaxCeiling, timeout : {"None", "set"}]

ExecIdle ==
    /\ x_pc = "off" /\ x_proc = NoProc /\ raw = <<>> /\ result = <<>>
    /\ x_cfg = [return_err_output |-> FALSE, strip_newlines |-> FALSE,
                max_tokens |-> 0, timeout |-> "None"]

\* A CommandExecutor, and a call of its run().
InitExec ==
    /\ x_pc = "exec" /\ x_proc = NoProc /\ raw = <<>> /\ result = <<>>
    /\ x_cfg \in Configs

\* result = self.exec(commands, input=input, timeout=timeout)
ExecStep ==
    /\ x_pc = "exec"
    /\ \E p \in ProcOutcomes(x_cfg.timeout) :
        LET r == exec(p, x_cfg)
        IN  /\ x_proc' = p
            /\ raw' = r.value
            /\ result' = r.value
            /\ x_pc' = IF r.raised THEN "raised" ELSE "bound"
    /\ UNCHANGED <<x_cfg, termVars, orchVars, genVars>>

\* One pass of `while len(tokens) > self.max_tokens`.
HalveStep ==
    /\ x_pc = "bound"
    /\ TokenCount(result) > x_cfg.max_tokens
    /\ result' = Halve(result)
    /\ UNCHANGED <<x_pc, x_cfg, x_proc, raw, termVars, orchVars, genVars>>

\* The loop ends: return result.
ReturnStep ==
    /\ x_pc = "bound"
    /\ ~(TokenCount(result) > x_cfg.max_tokens)
    /\ x_pc' = "returned"
    /\ UNCHANGED <<x_cfg, x_proc, raw, result, termVars, orchVars, genVars>>

NextExec == ExecStep \/ HalveStep \/ ReturnStep

----------------------------------------------------------------------------
(* The apply step of `generate`.  The text of a plan result is a sequence   *)
(* of tokens: the fence of three backquotes, the words "yaml" and "sh", a   *)
(* line "k", the separator "---", and white space.                         *)

\* Most segments of a plan result the model enumerates.
MaxSegs == 3
\* Longest body of a yaml block the model enumerates.
MaxBody == 2

\* Three backquotes, as one token.
FENCE == "fence"

Segments ==
    { [kind |-> "text", body |-> <<"k">>],
      [kind |-> "text", body |-> <<"\n">>],
      [kind |-> "text", body |-> <<"---">>],
      [kind |-> "code", body |-> <<"k">>] }
    \cup { [kind |-> "yaml", body |-> b] : b \in BoundedSeq({"k", "\n"}, MaxBody) }

\* The text of one segment.
SegText(g) ==
    CASE g.kind = "text" -> g.body
      [] g.kind = "code" -> <<FENCE, "sh">> \o g.body \o <<FENCE>>
      [] g.kind = "yaml" -> <<FENCE, "yaml">> \o g.body \o <<FENCE>>

RECURSIVE Flatten(_)
\* The text of a plan result made of the segments d.
Flatten(d) == IF d = <<>> THEN <<>> ELSE SegText(Head(d)) \o Flatten(Tail(d))

\* Indices where an opening yaml fence starts in s.
Opens(s) == {i \in 1..(Len(s) - 1) : s[i] = FENCE /\ s[i + 1] = "yaml"}

Min(S) == CHOOSE m \in S : \A n \in S : m <= n
Max(S) == CHOOSE m \in S : \A n \in S : m >= n

RECURSIVE findall_greedy(_)
\* A faulty variant: the same with a greedy group.
findall_greedy(s) ==
    IF Opens(s) = {} THEN <<>>
    ELSE LET i == Min(Opens(s))
             closes == {j \in (i + 2)..Len(s) : s[j] = FENCE}
         IN  IF closes = {} THEN <<>>
             ELSE <<SubSeq(s, i + 2, Max(closes) - 1)>>
                    \o findall_greedy(SubSeq(s, Max(closes) + 1, Len(s)))

RECURSIVE findall(_)
\* re.findall of the yaml fence pattern, non-greedy, with re.DOTALL: the text
\* between each opening yaml fence and the first fence after it.
findall(s) ==
    IF Opens(s) = {} THEN <<>>
    ELSE LET i == Min(Opens(s))
             closes == {j \in (i + 2)..Len(s) : s[j] = FENCE}
         IN  IF closes = {} THEN <<>>
             ELSE <<SubSeq(s, i + 2, Min(closes) - 1)>>
                    \o findall(SubSeq(s, Min(closes) + 1, Len(s)))

RECURSIVE join(_, _)
\* sep.join(parts)
join(sep, parts) ==
    IF parts = <<>> THEN <<>>
    ELSE IF Len(parts) = 1 THEN parts[1]
    ELSE parts[1] \o sep \o join(sep, Tail(parts))

\* '\n---\n'.join([b.strip() for b in yaml_blocks]) + '\n'
Manifests(text) ==
    LET yaml_blocks == findall(text)
    IN  join(<<"\n", "---", "\n">>, [i \in 1..Len(yaml_blocks) |-> strip(yaml_blocks[i])])
          \o <<"\n">>

GenIdle == g_pc = "off" /\ g_doc = <<>> /\ g_result = <<>> /\ manifests = <<>>

\* The agent has answered with g_result; click.confirm is next.
InitGen ==
    /\ g_pc = "confirm"
    /\ g_doc \in BoundedSeq(Segments, MaxSegs)
    /\ g_result = Flatten(g_doc)
    /\ manifests = <<>>

\* The operator approves: the manifests are extracted and passed as input of
\* 'kubectl apply -f -'.
GenApply ==
    /\ g_pc = "confirm"
    /\ manifests' = Manifests(g_result)
    /\ g_pc' = "applied"
    /\ UNCHANGED <<g_doc, g_result, termVars, orchVars, execVars>>

\* The operator declines: nothing is applied.
GenDecline ==
    /\ g_pc = "confirm"
    /\ g_pc' = "declined"
    /\ UNCHANGED <<g_doc, g_result, manifests, termVars, orchVars, execVars>>

NextGen == GenApply \/ GenDecline

----------------------------------------------------------------------------
(* Specifications.                                                         *)

TermInit == InitTerm /\ OrchIdle /\ ExecIdle /\ GenIdle
OrchInit == InitOrch /\ TermIdle /\ ExecIdle /\ GenIdle
ExecInit == InitExec /\ TermIdle /\ OrchIdle /\ GenIdle
GenInit  == InitGen /\ TermIdle /\ OrchIdle /\ ExecIdle

Init == TermInit \/ OrchInit \/ ExecInit \/ GenInit

Next == TermCall \/ NextOrch \/ NextExec \/ NextGen

Spec == Init /\ [][Next]_vars

\* One call of CommandExecutor.run on its own.  run() is sequential code: a
\* call that can take a step takes it.
ExecFairSpec == ExecInit /\ [][NextExec]_vars /\ WF_vars(NextExec)

----------------------------------------------------------------------------
(* Properties of the orchestration.                                        *)

\* The last message of the thread.
LastMessage == thread[Len(thread)]

Orchestrating == o_pc # "off"

\* C1: an orchestration never performs more than RoundCeiling rounds: at the
\* ceiling, without the termination token, it stops and returns.
C1_RoundCeiling == Orchestrating => round_count <= RoundCeiling

\* C2: after a text response of an agent the loop has stopped exactly when
\* the text is a termination message under the rule of termination_msg.
C2_StopsExactlyOnRule ==
    (o_pc \in {"turn", "returned"} /\ LastMessage.type = "TextMessage"
        /\ LastMessage.source \in Roles)
    => ((o_pc = "returned")
            <=> termination_msg([kind |-> "dict", content |-> LastMessage.content]))

\* The hand-off sets as the claim lists them.
AllowedHandoffs(agent) ==
    CASE agent = "Planner"  -> {"Critic", "Admin"}
      [] agent = "Critic"   -> {"Admin", "Planner"}
      [] agent = "Admin"    -> {"Planner", "Engineer"}
      [] agent = "Engineer" -> {"Admin"}
      [] OTHER -> {}

\* A step that appends a message of type ty.
Appends(ty) ==
    /\ o_pc \in {"turn", "tool"}
    /\ thread' # thread
    /\ thread'[Len(thread')].type = ty

\* C6: one agent holds the turn; the active agent changes only by a hand-off
\* of the active agent whose target is in its allowed set and becomes the
\* active agent; any other response leaves the active agent unchanged.
C6_HandoffInvariant ==
    /\ [](Orchestrating => current_speaker \in Roles)
    /\ [][ /\ (current_speaker' # current_speaker) =>
                /\ Appends("HandoffMessage")
                /\ thread'[Len(thread')].source = current_speaker
                /\ thread'[Len(thread')].target = current_speaker'
                /\ current_speaker' \in AllowedHandoffs(current_speaker)
           /\ Appends("HandoffMessage") =>
                /\ current_speaker' = thread'[Len(thread')].target
                /\ current_speaker' \in AllowedHandoffs(current_speaker)
           /\ (Appends("TextMessage") \/ Appends("ToolCallMessage")
                  \/ Appends("ToolCallResultMessage")) =>
                current_speaker' = current_speaker
         ]_vars

\* C6's case: in run(), Admin has handed the turn to Engineer.
C6_Witness ==
    /\ mode = "run" /\ o_pc = "turn"
    /\ LastMessage.type = "HandoffMessage"
    /\ LastMessage.source = "Admin" /\ LastMessage.target = "Engineer"
    /\ current_speaker = "Engineer"

PlanningRoster == {"Admin", "Planner", "Critic"}

\* C7: during plan() the active agent is in the planning roster, and so is
\* the target of every hand-off.
C7_PlanningConfined ==
    mode = "plan" =>
        /\ current_speaker \in PlanningRoster
        /\ \A i \in 1..Len(thread) :
              thread[i].type = "HandoffMessage" => thread[i].target \in PlanningRoster

\* s.split("TERMINATE")[0]: the text before the first termination token.
BeforeToken(s) ==
    IF Contains(s, TERMINATE)
    THEN LET i == Min({j \in 1..Len(s) : SubSeq(s, j, j + Len(TERMINATE) - 1) = TERMINATE})
         IN  SubSeq(s, 1, i - 1)
    ELSE s

\* C8: when run() ends on the termination token, what it returns is the
\* content of the last message without the termination token.
C8_ReturnedAnswer ==
    (mode = "run" /\ o_pc = "returned") =>
        /\ ret.kind = "content"
        /\ ~Contains(ret.value, TERMINATE)
        /\ ret.value = BeforeToken(LastMessage.content)

\* C10: a requested script execution is followed at once by exactly one tool
\* message, from the same agent, holding a token-bounded result, and that
\* agent still holds the turn.
C10_ToolCallRound ==
    Orchestrating =>
        /\ \A i \in 1..Len(thread) :
              thread[i].type = "ToolCallMessage" =>
                  IF i = Len(thread) THEN o_pc = "tool"
                  ELSE /\ thread[i + 1].type = "ToolCallResultMessage"
                       /\ thread[i + 1].source = thread[i].source
                       /\ TokenCount(thread[i + 1].content) <= TokenCeiling
        /\ \A i \in 1..Len(thread) :
              thread[i].type = "ToolCallResultMessage" =>
                  /\ i > 1 => thread[i - 1].type = "ToolCallMessage"
                  /\ i = Len(thread) => current_speaker = thread[i].source /\ o_pc # "tool"

----------------------------------------------------------------------------
(* Properties of termination_msg.                                          *)

\* The rule as the claim words it: trailing white space off, then every
\* trailing "." and "*" in any mix, then the last 9 characters.
ClaimedRule(content) ==
    TERMINATE = Upper(LastN(rstripChars(rstripChars(content, Whitespace), {".", "*"}), 9))

\* s[i..j] holds only characters of S.
AllIn(s, i, j, S) == \A k \in i..j : s[k] \in S

\* content reads: anything, TERMINATE in any case, white space, "*"s, "."s,
\* white space.
EndsAsTermination(content) ==
    \E e \in 9..Len(content) :
        /\ Upper(SubSeq(content, e - 8, e)) = TERMINATE
        /\ \E a \in e..Len(content) : \E b \in a..Len(content) : \E c \in b..Len(content) :
              /\ AllIn(content, e + 1, a, Whitespace)
              /\ AllIn(content, a + 1, b, {"*"})
              /\ AllIn(content, b + 1, c, {"."})
              /\ AllIn(content, c + 1, Len(content), Whitespace)

\* C3, as claimed: termination_msg is true exactly when the content, with
\* trailing white space and then every trailing "." and "*" in any mix
\* stripped, ends in TERMINATE in any case.
C3_ClaimedRule ==
    t_pc = "done" => (t_out <=> (t_x.kind = "dict" /\ ClaimedRule(t_x.content)))

\* C3, amended: termination_msg is true exactly when the content of a dict
\* ends in TERMINATE in any case, followed only by white space, then "*"s,
\* then "."s, then white space.
C3_TerminationRule ==
    t_pc = "done" => (t_out <=> (t_x.kind = "dict" /\ EndsAsTermination(t_x.content)))

\* C3's case: a message ending "TERMINATE*." has been judged a termination.
C3_Witness ==
    /\ t_pc = "done" /\ t_out
    /\ t_x.content = <<"x", " ">> \o TERMINATE \o <<"*", ".">>

----------------------------------------------------------------------------
(* Properties of CommandExecutor.                                          *)

\* C4: a process failure never makes the call raise: it returns the captured
\* output when return_err_output is set, else the text of the error.
C4_ExecNeverRaises ==
    /\ x_pc # "raised"
    /\ (x_pc \in {"bound", "returned"} /\ x_proc.kind # "ok") =>
          raw = IF x_cfg.return_err_output THEN x_proc.stdout ELSE ErrorText(x_proc)

IsPrefix(s, t) == Len(s) <= Len(t) /\ s = SubSeq(t, 1, Len(s))

\* C5: the halving loop ends, every pass makes the text strictly shorter,
\* what is returned is a prefix of the raw output within max_tokens tokens,
\* and a raw output already within the ceiling is returned unchanged.
C5_TokenBounding ==
    /\ [](x_pc = "returned" =>
            /\ IsPrefix(result, raw)
            /\ TokenCount(result) <= x_cfg.max_tokens
            /\ (TokenCount(raw) <= x_cfg.max_tokens => result = raw))
    /\ [][(x_pc = "bound" /\ x_pc' = "bound") => Len(result') < Len(result)]_vars
    /\ <>(x_pc \in {"returned", "raised"})

\* C5's case: a call has returned a non-empty text that halving cut short.
C5_Witness ==
    /\ x_pc = "returned"
    /\ result # <<>>
    /\ Len(result) < Len(raw)
    /\ TokenCount(raw) > x_cfg.max_tokens

----------------------------------------------------------------------------
(* Properties of the manifest extraction.                                  *)

\* The bodies of the yaml blocks of the plan result, in order, trimmed.
TrimmedBlocks ==
    LET ys == SelectSeq(g_doc, LAMBDA g : g.kind = "yaml")
    IN  [i \in 1..Len(ys) |-> strip(ys[i].body)]

RECURSIVE OffsetOf(_, _)
\* Where block i starts in a text of the blocks bs, each followed by three
\* tokens of separator.
OffsetOf(bs, i) == IF i = 1 THEN 0 ELSE OffsetOf(bs, i - 1) + Len(bs[i - 1]) + 3

\* How often token c occurs in s.
Count(s, c) == Cardinality({i \in 1..Len(s) : s[i] = c})

\* C9: the manifest applied is the trimmed yaml blocks in order, joined by
\* n-1 separator lines (none for n <= 1), and one trailing newline; for no
\* block it is a single newline, and it is applied all the same.
C9_ManifestExtraction ==
    g_pc = "applied" =>
        LET bs == TrimmedBlocks
            n == Len(bs)
        IN  /\ manifests[Len(manifests)] = "\n"
            /\ Count(manifests, "---") = IF n <= 1 THEN 0 ELSE n - 1
            /\ n = 0 => manifests = <<"\n">>
            /\ n > 0 => Len(manifests) = OffsetOf(bs, n) + Len(bs[n]) + 1
            /\ \A i \in 1..n :
                  /\ SubSeq(manifests, OffsetOf(bs, i) + 1, OffsetOf(bs, i) + Len(bs[i])) = bs[i]
                  /\ i < n =>
                        SubSeq(manifests, OffsetOf(bs, i) + Len(bs[i]) + 1,
                               OffsetOf(bs, i) + Len(bs[i]) + 3) = <<"\n", "---", "\n">>

\* C9's case: a plan result with two yaml blocks, one of them with white
\* space to trim, has been applied.
C9_Witness ==
    /\ g_pc = "applied"
    /\ Len(SelectSeq(g_doc, LAMBDA g : g.kind = "yaml")) = 2
    /\ \E i \in 1..Len(g_doc) : g_doc[i].kind = "yaml" /\ g_doc[i].body = <<"\n", "k">>
    /\ Count(manifests, "---") = 1

----------------------------------------------------------------------------
(* Properties of script execution.                                         *)

ToolTypes == {"ToolCallMessage", "ToolCallResultMessage"}

\* C11: a script is executed only in run() and only while Engineer holds the
\* turn: every pending call and every tool message of the thread is
\* Engineer's, and plan() never has one.
C11_ExecutionConfined ==
    /\ o_pc = "tool" => (mode = "run" /\ current_speaker = "Engineer" /\ pending \in Scripts)
    /\ \A i \in 1..Len(thread) :
          thread[i].type \in ToolTypes => (mode = "run" /\ thread[i].source = "Engineer")
    /\ mode = "plan" => pending = <<>>

\* C11's case: in run(), local_executor has run a script for Engineer.
C11_Witness ==
    /\ mode = "run" /\ o_pc = "turn"
    /\ current_speaker = "Engineer"
    /\ LastMessage.type = "ToolCallResultMessage"
    /\ LastMessage.source = "Engineer"

====
